---- MODULE Spec2Model ----
(***************************************************************************)
(* NCS duty rotation of ectlogger: the schedule resolver of                *)
(* backend/app/routers/ncs_rotation.py (round-robin rotation overlaid by   *)
(* date-keyed overrides, override create/delete) and the reminder loop of  *)
(* backend/app/ncs_reminder_service.py.                                    *)
(*                                                                         *)
(* A datetime is a number of quarter hours (the reminder loop's poll       *)
(* interval) since midnight of day 0; datetime.date() is the day number.   *)
(* Python's None is 0; user ids, row ids and reasons are positive.         *)
(***************************************************************************)
EXTENDS Integers, Sequences, FiniteSets, TLC

VARIABLES
    members,        \* ncs_rotation_members rows of the template, in load order
    overrides,      \* ncs_schedule_overrides rows of the template, in load order
    nextOverrideId, \* AUTOINCREMENT of ncs_schedule_overrides.id
    dates,          \* the dates list handed to the last compute_ncs_schedule call
    schedule,       \* what that call returned
    computed,       \* whether the last request returned a schedule
    nextMemberId,   \* AUTOINCREMENT of ncs_rotation_members.id
    lastDeleted,    \* history: scheduled_date of the row the last request deleted, or None
    templateActive, \* NetTemplate.is_active
    frequencies,    \* template.frequencies: for each, whether freq.frequency is set
    now,            \* datetime.now()
    running,        \* NCSReminderService.running
    loopPc,         \* the _run_loop task: "none" (no live task), "poll", "sleep"
    reminderLog,    \* ncs_reminder_logs rows of the template
    starts,         \* how many times start() spawned a loop
    failures,       \* how many sends or log writes have failed
    deliveries,     \* history: the combinations the notifier delivered, in order
    lastPoll,       \* history: what the last poll found and did
    prevFailed,     \* history: the combinations whose send failed in the poll before the last
    services,       \* per service instance: its running flag and its _task
    tasks,          \* the _run_loop tasks ever created, at the grain of their await points
    stopCalls,      \* the stop() calls suspended at "await self._task"
    badTemplates,   \* the templates whose schedule computation raises
    expandTemplate, \* calculate_schedule_dates: the template's schedule_type and schedule_config
    start_date,     \* calculate_schedule_dates: its start_date
    months_ahead,   \* calculate_schedule_dates: its months_ahead
    newYearWeekday, \* the weekday() of day 0 of the calendar, 0 = Monday
    expanded,       \* what the last calculate_schedule_dates call returned
    expandDone,     \* whether that call has returned
    subscriptions,  \* user_id of the net_template_subscriptions rows of the template, in load order
    backgroundTasks \* the send_net_cancellation tasks the latest request added, not yet run

rotationVars == <<members, overrides, nextOverrideId, dates, schedule, computed,
                  nextMemberId, lastDeleted>>

reminderVars == <<templateActive, frequencies, now, running, loopPc, reminderLog,
                  starts, failures, deliveries, lastPoll, prevFailed>>

taskVars == <<services, tasks, stopCalls, badTemplates>>

expandVars == <<expandTemplate, start_date, months_ahead, newYearWeekday, expanded, expandDone>>

notifyVars == <<subscriptions, backgroundTasks>>

vars == <<rotationVars, reminderVars, taskVars, expandVars, notifyVars>>

----------------------------------------------------------------------------
(* Bounds *)

MaxMembers == 3
MaxDates == 4
MaxOverrides == 2
MaxReasons == 2
MaxAdds == 2
MaxStarts == 2
MaxFailures == 2
MaxDay == 1
NumTemplates == 2

----------------------------------------------------------------------------
(* Values *)

None == 0

CHECK_INTERVAL_MINUTES == 15

TicksPerHour == 60 \div CHECK_INTERVAL_MINUTES

TicksPerDay == 24 * TicksPerHour

\* datetime.date()
DateOf(dt) == dt \div TicksPerDay

\* the template's time of day: config.get('time', '19:00')
NetTime == 19 * TicksPerHour

\* another time of day on which an override row can be keyed
OtherTime == 18 * TicksPerHour

At(day, timeOfDay) == day * TicksPerDay + timeOfDay

Users == 1 .. MaxMembers

Reasons == 1 .. MaxReasons

SetMax(S) == CHOOSE x \in S : \A y \in S : y <= x

SetMin(S) == CHOOSE x \in S : \A y \in S : x <= y

\* the clock values followed: the quarter hours from 17:15 to 18:45 of the
\* days 0 .. MaxDay, which hold the 1h window of the day's net and the start
\* of the 24h window of the next day's net
EveningFrom == 17 * TicksPerHour + 1

EveningTo == 18 * TicksPerHour + 3

Times == UNION {At(day, EveningFrom) .. At(day, EveningTo) : day \in 0 .. MaxDay}

StartNow == At(0, EveningFrom)

MaxNow == At(MaxDay, EveningTo)

NoPoll ==
    [ran |-> FALSE, at |-> None, attempted |-> {}, invoked |-> {}, failed |-> {},
     logBefore |-> {}]

\* one service instance that was never started: running = False, _task = None
NoService == [running |-> FALSE, task |-> None]

TasksIdle ==
    /\ services = [s \in {1} |-> NoService]
    /\ tasks = <<>>
    /\ stopCalls = {}
    /\ badTemplates = {}

\* daily at 19:00, the template of the rotation endpoints
DailyTemplate == [schedule_type |-> "daily", day_of_week |-> 0, week_of_month |-> <<1>>]

\* no calculate_schedule_dates call is followed
ExpandIdle ==
    /\ expandTemplate = DailyTemplate
    /\ start_date = None
    /\ months_ahead = 1
    /\ newYearWeekday = 0
    /\ expanded = <<>>
    /\ expandDone = FALSE

\* a template without subscribers
NotifyIdle ==
    /\ subscriptions = <<>>
    /\ backgroundTasks = <<>>

\* the service has not been started
ReminderIdle ==
    /\ templateActive = TRUE
    /\ frequencies = <<TRUE>>
    /\ now = StartNow
    /\ running = FALSE
    /\ loopPc = "none"
    /\ reminderLog = {}
    /\ starts = 0
    /\ failures = 0
    /\ deliveries = <<>>
    /\ lastPoll = NoPoll
    /\ prevFailed = {}

----------------------------------------------------------------------------
(* compute_ncs_schedule *)

\* sorted(..., key=lambda m: m.position) is stable: one insertion step
RECURSIVE InsertByPosition(_, _)
InsertByPosition(m, s) ==
    IF s = <<>> THEN <<m>>
    ELSE IF Head(s).position <= m.position
         THEN <<Head(s)>> \o InsertByPosition(m, Tail(s))
         ELSE <<m>> \o s

RECURSIVE SortedByPosition(_)
SortedByPosition(s) ==
    IF s = <<>> THEN <<>>
    ELSE InsertByPosition(s[Len(s)], SortedByPosition(SubSeq(s, 1, Len(s) - 1)))

IsActiveMember(m) == m.is_active

\* the is_active filter forgotten
ActiveMembersUnfiltered(rotation_members) ==
    SortedByPosition(rotation_members)

\* active_members = sorted([m for m in rotation_members if m.is_active], key=position)
ActiveMembers(rotation_members) ==
    SortedByPosition(SelectSeq(rotation_members, IsActiveMember))

\* override_lookup[date_key] = override, built in list order: the last row of a day wins
OverrideRowsOn(ovs, day) == {k \in 1 .. Len(ovs) : DateOf(ovs[k].scheduled_date) = day}

HasOverrideOn(ovs, day) == OverrideRowsOn(ovs, day) # {}

OverrideLookup(ovs, day) == ovs[SetMax(OverrideRowsOn(ovs, day))]

CancelledEntry(date, override) ==
    [date |-> date, user_id |-> None, is_override |-> TRUE, is_cancelled |-> TRUE,
     override_reason |-> override.reason]

\* a swap that drops the override's reason
SwappedEntryNoReason(date, override) ==
    [date |-> date, user_id |-> override.replacement_user_id, is_override |-> TRUE,
     is_cancelled |-> FALSE, override_reason |-> None]

\* a swap that keeps the member the rotation had assigned
SwappedEntryOriginal(date, override) ==
    [date |-> date, user_id |-> override.original_user_id, is_override |-> TRUE,
     is_cancelled |-> FALSE, override_reason |-> override.reason]

SwappedEntry(date, override) ==
    [date |-> date, user_id |-> override.replacement_user_id, is_override |-> TRUE,
     is_cancelled |-> FALSE, override_reason |-> override.reason]

RotationEntry(date, member) ==
    [date |-> date, user_id |-> member.user_id, is_override |-> FALSE,
     is_cancelled |-> FALSE, override_reason |-> None]

\* member = active_members[i % member_count], i the 0-based index into dates
RotationMember(active_members, i) ==
    active_members[(i % Len(active_members)) + 1]

\* a rotation index that advances only on dates without an override
ScheduleEntryAtSkipping(ds, active_members, ovs, i) ==
    IF HasOverrideOn(ovs, DateOf(ds[i + 1]))
    THEN LET override == OverrideLookup(ovs, DateOf(ds[i + 1]))
         IN  IF override.replacement_user_id = None
             THEN CancelledEntry(ds[i + 1], override)
             ELSE SwappedEntry(ds[i + 1], override)
    ELSE RotationEntry(ds[i + 1],
            RotationMember(active_members,
                Cardinality({j \in 1 .. i : ~HasOverrideOn(ovs, DateOf(ds[j]))})))

ScheduleEntryAt(ds, active_members, ovs, i) ==
    IF HasOverrideOn(ovs, DateOf(ds[i + 1]))
    THEN LET override == OverrideLookup(ovs, DateOf(ds[i + 1]))
         IN  IF override.replacement_user_id = None
             THEN CancelledEntry(ds[i + 1], override)
             ELSE SwappedEntry(ds[i + 1], override)
    ELSE RotationEntry(ds[i + 1], RotationMember(active_members, i))

ComputeNcsSchedule(ds, rotation_members, ovs) ==
    IF rotation_members = <<>> \/ ds = <<>> THEN <<>>
    ELSE LET active_members == ActiveMembers(rotation_members)
         IN  IF active_members = <<>> THEN <<>>
             ELSE [k \in 1 .. Len(ds) |-> ScheduleEntryAt(ds, active_members, ovs, k - 1)]

----------------------------------------------------------------------------
(* compute_ncs_schedule as a function of its arguments: FnSpec draws the   *)
(* rotation_members, dates and overrides lists and applies it.             *)

\* rotation members: the k-th row references user k
MemberRow(k, position, is_active) ==
    [id |-> k, user_id |-> k, position |-> position, is_active |-> is_active]

\* positions up to order: every ranking of the rows, ties included
FnPositions(n) ==
    {pos \in [1 .. n -> 1 .. n] :
        \E m \in 0 .. n : {pos[k] : k \in 1 .. n} = 1 .. m}

FnMemberLists ==
    UNION {{[k \in 1 .. n |-> MemberRow(k, pos[k], act[k])] :
                pos \in FnPositions(n), act \in [1 .. n -> BOOLEAN]} :
           n \in 0 .. MaxMembers}

\* dates as calculate_schedule_dates returns them: ascending from day 0 at the
\* template's time, one per day, with at most one day listed twice (a monthly
\* selector list naming the same day twice)
FnDayLists ==
    UNION {{d \in [1 .. n -> 0 .. MaxDates] :
                /\ n > 0 => d[1] = 0
                /\ \A k \in 2 .. n : d[k] - d[k - 1] \in {0, 1}
                /\ Cardinality({k \in 2 .. n : d[k] = d[k - 1]}) <= 1} :
           n \in 0 .. MaxDates}

FnDateLists == {[k \in 1 .. Len(d) |-> At(d[k], NetTime)] : d \in FnDayLists}

\* override rows: at most one per exact timestamp
OverrideTimes == {At(0, NetTime), At(1, NetTime), At(1, OtherTime)}

Replacements == {None, MaxMembers}

OverrideRow(id, scheduled_date, original, replacement, reason) ==
    [id |-> id, scheduled_date |-> scheduled_date, original_user_id |-> original,
     replacement_user_id |-> replacement, reason |-> reason]

FnOverrideLists ==
    UNION {{[k \in 1 .. n |-> OverrideRow(k, ts[k], None, rep[k], ((k - 1) % MaxReasons) + 1)] :
                ts \in {f \in [1 .. n -> OverrideTimes] :
                            \A a, b \in 1 .. n : a # b => f[a] # f[b]},
                rep \in [1 .. n -> Replacements]} :
           n \in 0 .. MaxOverrides}

FnInit ==
    /\ members \in FnMemberLists
    /\ overrides \in FnOverrideLists
    /\ dates \in FnDateLists
    /\ schedule = <<>>
    /\ computed = FALSE
    /\ nextOverrideId = 1
    /\ nextMemberId = 1
    /\ lastDeleted = None
    /\ ReminderIdle
    /\ TasksIdle
    /\ ExpandIdle
    /\ NotifyIdle

FnApply ==
    /\ ~computed
    /\ schedule' = ComputeNcsSchedule(dates, members, overrides)
    /\ computed' = TRUE
    /\ UNCHANGED <<members, overrides, dates, nextOverrideId, nextMemberId, lastDeleted>>
    /\ UNCHANGED backgroundTasks
    /\ UNCHANGED reminderVars
    /\ UNCHANGED taskVars
    /\ UNCHANGED expandVars
    /\ UNCHANGED subscriptions

FnNext == FnApply

FnSpec == FnInit /\ [][FnNext]_vars

----------------------------------------------------------------------------
(* The rotation endpoints of one template whose schedule_type is daily.    *)
(* A request the handler rejects (403, 404, 400) changes nothing: its     *)
(* action is not enabled. A request's response replaces the last one.      *)

\* template.owner_id
OwnerId == 1

\* a user whose role is admin
AdminUser == MaxMembers + 1

Actors == Users \cup {AdminUser}

\* a check that lets every authenticated user manage the rotation
CheckTemplatePermissionAnyone(user) == TRUE

CheckTemplatePermission(user) ==
    \/ user = AdminUser
    \/ user = OwnerId
    \/ \E k \in 1 .. Len(members) : members[k].user_id = user

\* calculate_schedule_dates, daily: one date per day from start_date's day at
\* the template's time, here for MaxDates days
CalculateScheduleDates(start_day) ==
    [k \in 1 .. MaxDates |-> At(start_day + k - 1, NetTime)]

\* datetime.now().replace(hour=0, minute=0, second=0, microsecond=0)
Today == DateOf(now)

NoResponse ==
    /\ dates' = <<>>
    /\ schedule' = <<>>
    /\ computed' = FALSE

\* the request hands nothing to BackgroundTasks
NoBackgroundTasks == backgroundTasks' = <<>>

MaxPosition(ms) ==
    IF ms = <<>> THEN 0 ELSE SetMax({ms[k].position : k \in 1 .. Len(ms)})

\* add_rotation_member without the "already in rotation" check
AddRotationMemberUnchecked(current_user, user_id) ==
    /\ CheckTemplatePermission(current_user)
    /\ nextMemberId <= MaxAdds
    /\ members' = Append(members,
                         [id |-> nextMemberId, user_id |-> user_id,
                          position |-> MaxPosition(members) + 1, is_active |-> TRUE])
    /\ nextMemberId' = nextMemberId + 1
    /\ lastDeleted' = None
    /\ NoResponse
    /\ NoBackgroundTasks
    /\ UNCHANGED <<overrides, nextOverrideId>>
    /\ UNCHANGED reminderVars
    /\ UNCHANGED taskVars
    /\ UNCHANGED expandVars
    /\ UNCHANGED subscriptions

\* a position counted from the number of rows instead of their positions
AddRotationMemberCounting(current_user, user_id) ==
    /\ CheckTemplatePermission(current_user)
    /\ \A k \in 1 .. Len(members) : members[k].user_id # user_id
    /\ nextMemberId <= MaxAdds
    /\ members' = Append(members,
                         [id |-> nextMemberId, user_id |-> user_id,
                          position |-> Len(members) + 1, is_active |-> TRUE])
    /\ nextMemberId' = nextMemberId + 1
    /\ lastDeleted' = None
    /\ NoResponse
    /\ NoBackgroundTasks
    /\ UNCHANGED <<overrides, nextOverrideId>>
    /\ UNCHANGED reminderVars
    /\ UNCHANGED taskVars
    /\ UNCHANGED expandVars
    /\ UNCHANGED subscriptions

AddRotationMember(current_user, user_id) ==
    /\ CheckTemplatePermission(current_user)
    /\ \A k \in 1 .. Len(members) : members[k].user_id # user_id
    /\ nextMemberId <= MaxAdds
    /\ members' = Append(members,
                         [id |-> nextMemberId, user_id |-> user_id,
                          position |-> MaxPosition(members) + 1, is_active |-> TRUE])
    /\ nextMemberId' = nextMemberId + 1
    /\ lastDeleted' = None
    /\ NoResponse
    /\ NoBackgroundTasks
    /\ UNCHANGED <<overrides, nextOverrideId>>
    /\ UNCHANGED reminderVars
    /\ UNCHANGED taskVars
    /\ UNCHANGED expandVars
    /\ UNCHANGED subscriptions

RemoveRotationMember(current_user, member_id) ==
    /\ CheckTemplatePermission(current_user)
    /\ \E k \in 1 .. Len(members) : members[k].id = member_id
    /\ members' = SelectSeq(members, LAMBDA m : m.id # member_id)
    /\ lastDeleted' = None
    /\ NoResponse
    /\ NoBackgroundTasks
    /\ UNCHANGED <<overrides, nextOverrideId, nextMemberId>>
    /\ UNCHANGED reminderVars
    /\ UNCHANGED taskVars
    /\ UNCHANGED expandVars
    /\ UNCHANGED subscriptions

\* for i, member_id in enumerate(member_ids, start=1): member.position = i
RECURSIVE ApplyReorder(_, _, _)
ApplyReorder(ms, member_ids, i) ==
    IF i > Len(member_ids) THEN ms
    ELSE ApplyReorder(
            [k \in 1 .. Len(ms) |->
                IF ms[k].id = member_ids[i] THEN [ms[k] EXCEPT !.position = i] ELSE ms[k]],
            member_ids, i + 1)

ReorderRotationMembers(current_user, member_ids) ==
    /\ CheckTemplatePermission(current_user)
    /\ members' = ApplyReorder(members, member_ids, 1)
    /\ lastDeleted' = None
    /\ NoResponse
    /\ NoBackgroundTasks
    /\ UNCHANGED <<overrides, nextOverrideId, nextMemberId>>
    /\ UNCHANGED reminderVars
    /\ UNCHANGED taskVars
    /\ UNCHANGED expandVars
    /\ UNCHANGED subscriptions

GetNcsSchedule ==
    /\ dates' = CalculateScheduleDates(Today)
    /\ schedule' = ComputeNcsSchedule(CalculateScheduleDates(Today), members, overrides)
    /\ computed' = TRUE
    /\ UNCHANGED <<members, overrides, nextOverrideId, nextMemberId, lastDeleted>>
    /\ NoBackgroundTasks
    /\ UNCHANGED reminderVars
    /\ UNCHANGED taskVars
    /\ UNCHANGED expandVars
    /\ UNCHANGED subscriptions

\* original_user_id = schedule[0].user_id if schedule else None, the schedule
\* computed for [scheduled_date] without overrides
OriginalUserId(scheduled_date) ==
    LET original == ComputeNcsSchedule(<<scheduled_date>>, members, <<>>)
    IN  IF original = <<>> THEN None ELSE original[1].user_id

\* a task of BackgroundTasks: EmailService.send_net_cancellation to user `to`
CancellationTask(to, is_ncs) == [to |-> to, is_ncs |-> is_ncs]

\* the subscribers' notices without the test sub.user_id != original_user_id
CancellationTasksToAll(original_user_id) ==
    (IF original_user_id # None /\ original_user_id \in Actors
     THEN <<CancellationTask(original_user_id, TRUE)>>
     ELSE <<>>)
    \o [k \in 1 .. Len(subscriptions) |-> CancellationTask(subscriptions[k], FALSE)]

\* the tasks a cancellation adds: one to the original NCS (is_ncs=True) if
\* the user row is found, then one to each subscriber other than that user
CancellationTasks(original_user_id) ==
    (IF original_user_id # None /\ original_user_id \in Actors
     THEN <<CancellationTask(original_user_id, TRUE)>>
     ELSE <<>>)
    \o [k \in 1 .. Len(SelectSeq(subscriptions, LAMBDA u : u # original_user_id)) |->
           CancellationTask(SelectSeq(subscriptions, LAMBDA u : u # original_user_id)[k],
                            FALSE)]

\* a lookup that never finds the row: every call inserts
ExistingOverrideNever(scheduled_date) ==
    {}

ExistingOverride(scheduled_date) ==
    {k \in 1 .. Len(overrides) : overrides[k].scheduled_date = scheduled_date}

CreateScheduleOverride(current_user, scheduled_date, replacement_user_id, reason) ==
    /\ CheckTemplatePermission(current_user)
    /\ IF ExistingOverride(scheduled_date) # {}
       THEN /\ overrides' =
                  [k \in 1 .. Len(overrides) |->
                      IF k \in ExistingOverride(scheduled_date)
                      THEN [overrides[k] EXCEPT
                               !.replacement_user_id = replacement_user_id,
                               !.reason = reason,
                               !.original_user_id = OriginalUserId(scheduled_date)]
                      ELSE overrides[k]]
            /\ UNCHANGED nextOverrideId
       ELSE /\ nextOverrideId <= MaxOverrides
            /\ overrides' = Append(overrides,
                  OverrideRow(nextOverrideId, scheduled_date,
                              OriginalUserId(scheduled_date), replacement_user_id, reason))
            /\ nextOverrideId' = nextOverrideId + 1
    /\ lastDeleted' = None
    /\ NoResponse
    /\ backgroundTasks' = IF replacement_user_id = None
                          THEN CancellationTasks(OriginalUserId(scheduled_date))
                          ELSE <<>>
    /\ UNCHANGED <<members, nextMemberId>>
    /\ UNCHANGED reminderVars
    /\ UNCHANGED taskVars
    /\ UNCHANGED expandVars
    /\ UNCHANGED subscriptions

DeleteScheduleOverride(current_user, override_id) ==
    /\ CheckTemplatePermission(current_user)
    /\ \E k \in 1 .. Len(overrides) :
          /\ overrides[k].id = override_id
          /\ lastDeleted' = overrides[k].scheduled_date
    /\ overrides' = SelectSeq(overrides, LAMBDA o : o.id # override_id)
    /\ NoResponse
    /\ NoBackgroundTasks
    /\ UNCHANGED <<members, nextOverrideId, nextMemberId>>
    /\ UNCHANGED reminderVars
    /\ UNCHANGED taskVars
    /\ UNCHANGED expandVars
    /\ UNCHANGED subscriptions

ReorderLists ==
    UNION {[1 .. n -> 1 .. MaxAdds + 1] : n \in 0 .. MaxAdds}

Init ==
    /\ members = <<>>
    /\ overrides = <<>>
    /\ nextMemberId = 1
    /\ nextOverrideId = 1
    /\ dates = <<>>
    /\ schedule = <<>>
    /\ computed = FALSE
    /\ lastDeleted = None
    /\ ReminderIdle
    /\ TasksIdle
    /\ ExpandIdle
    /\ NotifyIdle

AddMember == \E a \in Actors, u \in Users : AddRotationMember(a, u)

RemoveMember == \E a \in Actors, id \in 1 .. MaxAdds : RemoveRotationMember(a, id)

Reorder == \E a \in Actors, ids \in ReorderLists : ReorderRotationMembers(a, ids)

CreateOverride ==
    \E a \in Actors, sd \in OverrideTimes, r \in Replacements, why \in Reasons :
        CreateScheduleOverride(a, sd, r, why)

DeleteOverride == \E a \in Actors, id \in 1 .. MaxOverrides : DeleteScheduleOverride(a, id)

Next ==
    \/ AddMember
    \/ RemoveMember
    \/ Reorder
    \/ GetNcsSchedule
    \/ CreateOverride
    \/ DeleteOverride

Spec == Init /\ [][Next]_vars

----------------------------------------------------------------------------
(* The reminder service: NCSReminderService of ncs_reminder_service.py for *)
(* one template. The rotation rows are fixed while the service runs.       *)

REMINDER_HOURS == <<24, 1>>

\* the users table; users.email is NOT NULL
AllUsers == Actors

\* f"{reminder_hours}h"
ReminderType(hours) == <<hours, "h">>

ReminderTypes == {ReminderType(REMINDER_HOURS[k]) : k \in 1 .. Len(REMINDER_HOURS)}

\* an ncs_reminder_logs row of the template
LogRow(user_id, net_date, reminder_type) ==
    [user_id |-> user_id, net_date |-> net_date, reminder_type |-> reminder_type]

\* datetime.isoformat(): the text carries the day and the time of day
IsoFormat(dt) == <<DateOf(dt), dt % TicksPerDay>>

\* datetime.fromisoformat(entry['date'])
FromIsoFormat(text) == text[1] * TicksPerDay + text[2]

\* the schedule entry as the dict the loop body reads
EntryAsDict(e) ==
    [date |-> IsoFormat(e.date), user_id |-> e.user_id, is_cancelled |-> e.is_cancelled]

\* the upcoming schedule the loop body is written for: the occurrences from
\* today on, resolved as get_ncs_schedule resolves them, as a list of dicts
LoopSchedule(t) ==
    LET ds == CalculateScheduleDates(DateOf(t))
        entries == ComputeNcsSchedule(ds, members, overrides)
    IN  [raised |-> FALSE, entries |-> [i \in 1 .. Len(entries) |-> EntryAsDict(entries[i])]]

\* compute_ncs_schedule(db, template.id, weeks=1) on a function whose
\* parameters are (template, dates, rotation_members, overrides): TypeError
ComputeScheduleCall ==
    [raised |-> TRUE, entries |-> <<>>]

Abs(x) == IF x < 0 THEN -x ELSE x

\* abs(hours_until - reminder_hours) <= 0.5
InReminderWindow(scheduled_dt, t, hours) ==
    2 * Abs((scheduled_dt - t) - hours * TicksPerHour) <= TicksPerHour

\* a dedup lookup that never finds a row
CheckReminderSentNever(log, user_id, net_date, reminder_type) ==
    FALSE

CheckReminderSent(log, user_id, net_date, reminder_type) ==
    \E row \in log :
        /\ row.user_id = user_id
        /\ row.net_date = net_date
        /\ row.reminder_type = reminder_type

GetUser(user_id) == IF user_id \in AllUsers THEN user_id ELSE None

\* a frequency row without frequency reaches freq.talkgroup_name, an attribute
\* the Frequency model does not have: AttributeError inside the try
FormatFrequenciesRaises ==
    \E k \in 1 .. Len(frequencies) : ~frequencies[k]

Outcomes == {"ok", "send_fails", "commit_fails"}

\* a send failure that is logged as sent
SendReminderLoggingFailure(st, user, scheduled_dt, hours_until, outcome) ==
    LET c == LogRow(user, DateOf(scheduled_dt), ReminderType(hours_until))
    IN  IF FormatFrequenciesRaises
        THEN [st EXCEPT !.attempted = @ \cup {c}]
        ELSE IF outcome = "send_fails"
        THEN [st EXCEPT !.attempted = @ \cup {c}, !.invoked = @ \cup {c},
                        !.failed = @ \cup {c}, !.failures = @ + 1,
                        !.log = @ \cup {c}]
        ELSE IF outcome = "commit_fails"
        THEN [st EXCEPT !.attempted = @ \cup {c}, !.invoked = @ \cup {c},
                        !.deliveries = Append(@, c), !.failures = @ + 1]
        ELSE [st EXCEPT !.attempted = @ \cup {c}, !.invoked = @ \cup {c},
                        !.deliveries = Append(@, c), !.log = @ \cup {c}]

\* a log that keeps only the latest row
SendReminderReplacingLog(st, user, scheduled_dt, hours_until, outcome) ==
    LET c == LogRow(user, DateOf(scheduled_dt), ReminderType(hours_until))
    IN  IF FormatFrequenciesRaises
        THEN [st EXCEPT !.attempted = @ \cup {c}]
        ELSE IF outcome = "send_fails"
        THEN [st EXCEPT !.attempted = @ \cup {c}, !.invoked = @ \cup {c},
                        !.failed = @ \cup {c}, !.failures = @ + 1]
        ELSE IF outcome = "commit_fails"
        THEN [st EXCEPT !.attempted = @ \cup {c}, !.invoked = @ \cup {c},
                        !.deliveries = Append(@, c), !.failures = @ + 1]
        ELSE [st EXCEPT !.attempted = @ \cup {c}, !.invoked = @ \cup {c},
                        !.deliveries = Append(@, c), !.log = {c}]

\* _send_reminder; st is the poll's running state
SendReminder(st, user, scheduled_dt, hours_until, outcome) ==
    LET c == LogRow(user, DateOf(scheduled_dt), ReminderType(hours_until))
    IN  IF FormatFrequenciesRaises
        THEN [st EXCEPT !.attempted = @ \cup {c}]
        ELSE IF outcome = "send_fails"
        THEN [st EXCEPT !.attempted = @ \cup {c}, !.invoked = @ \cup {c},
                        !.failed = @ \cup {c}, !.failures = @ + 1]
        ELSE IF outcome = "commit_fails"
        THEN [st EXCEPT !.attempted = @ \cup {c}, !.invoked = @ \cup {c},
                        !.deliveries = Append(@, c), !.failures = @ + 1]
        ELSE [st EXCEPT !.attempted = @ \cup {c}, !.invoked = @ \cup {c},
                        !.deliveries = Append(@, c), !.log = @ \cup {c}]

\* a dedup lookup that ignores reminder_type
CheckEntryIgnoringType(st, entry, t, hours, outcome) ==
    IF entry.user_id = None \/ entry.is_cancelled THEN st
    ELSE LET scheduled_dt == FromIsoFormat(entry.date)
         IN  IF ~InReminderWindow(scheduled_dt, t, hours) THEN st
             ELSE IF \E k \in 1 .. Len(REMINDER_HOURS) :
                        CheckReminderSent(st.log, entry.user_id, DateOf(scheduled_dt),
                                          ReminderType(REMINDER_HOURS[k]))
             THEN st
             ELSE IF GetUser(entry.user_id) = None THEN st
             ELSE SendReminder(st, GetUser(entry.user_id), scheduled_dt, hours, outcome)

\* the body of "for reminder_hours in self.REMINDER_HOURS" for one entry
\* the body of "for reminder_hours in self.REMINDER_HOURS" for one entry
CheckEntry(st, entry, t, hours, outcome) ==
    IF entry.user_id = None \/ entry.is_cancelled THEN st
    ELSE LET scheduled_dt == FromIsoFormat(entry.date)
         IN  IF ~InReminderWindow(scheduled_dt, t, hours) THEN st
             ELSE IF CheckReminderSent(st.log, entry.user_id, DateOf(scheduled_dt),
                                       ReminderType(hours))
             THEN st
             ELSE IF GetUser(entry.user_id) = None THEN st
             ELSE SendReminder(st, GetUser(entry.user_id), scheduled_dt, hours, outcome)

\* for entry in schedule: for reminder_hours in self.REMINDER_HOURS: step n
\* is entry (n - 1) \div 2 + 1 with the offset of index (n - 1) % 2 + 1
RECURSIVE CheckEntries(_, _, _, _, _)
CheckEntries(st, entries, t, outcomes, n) ==
    IF n > Len(entries) * Len(REMINDER_HOURS) THEN st
    ELSE LET entry == entries[((n - 1) \div Len(REMINDER_HOURS)) + 1]
             k == ((n - 1) % Len(REMINDER_HOURS)) + 1
         IN  CheckEntries(CheckEntry(st, entry, t, REMINDER_HOURS[k], outcomes[k]),
                          entries, t, outcomes, n + 1)

\* _check_and_send_reminders for the template, then the loop goes to sleep
CheckAndSendReminders(result, outcomes) ==
    /\ loopPc = "poll"
    /\ LET st0 == [log |-> reminderLog, attempted |-> {}, invoked |-> {}, failed |-> {},
                   deliveries |-> deliveries, failures |-> failures]
           st == IF ~templateActive \/ members = <<>> \/ result.raised
                 THEN st0
                 ELSE CheckEntries(st0, result.entries, now, outcomes, 1)
       IN  /\ st.failures <= MaxFailures
           /\ reminderLog' = st.log
           /\ deliveries' = st.deliveries
           /\ failures' = st.failures
           /\ lastPoll' = [ran |-> TRUE, at |-> now, attempted |-> st.attempted,
                           invoked |-> st.invoked, failed |-> st.failed,
                           logBefore |-> reminderLog]
    /\ prevFailed' = lastPoll.failed
    /\ loopPc' = "sleep"
    /\ UNCHANGED <<templateActive, frequencies, now, running, starts>>
    /\ UNCHANGED rotationVars
    /\ UNCHANGED expandVars
    /\ UNCHANGED notifyVars
    /\ UNCHANGED taskVars

\* start()
Start ==
    /\ IF running
       THEN UNCHANGED <<running, loopPc, starts>>
       ELSE /\ starts < MaxStarts
            /\ running' = TRUE
            /\ loopPc' = "poll"
            /\ starts' = starts + 1
    /\ UNCHANGED <<templateActive, frequencies, now, reminderLog, failures, deliveries,
                   lastPoll, prevFailed>>
    /\ UNCHANGED rotationVars
    /\ UNCHANGED expandVars
    /\ UNCHANGED notifyVars
    /\ UNCHANGED taskVars

\* stop(): the flag is cleared and the task cancelled
Stop ==
    /\ running' = FALSE
    /\ loopPc' = "none"
    /\ UNCHANGED <<templateActive, frequencies, now, reminderLog, starts, failures,
                   deliveries, lastPoll, prevFailed>>
    /\ UNCHANGED rotationVars
    /\ UNCHANGED expandVars
    /\ UNCHANGED notifyVars
    /\ UNCHANGED taskVars

\* time passes. While the loop sleeps, a quarter of an hour:
\* asyncio.sleep(CHECK_INTERVAL_MINUTES * 60) returns and the loop tests
\* self.running. While no loop is alive, any time.
Tick ==
    /\ loopPc # "poll"
    /\ \E t \in Times :
          /\ t > now
          /\ loopPc = "sleep" => t = now + 1
          /\ now' = t
    /\ loopPc' = IF loopPc = "sleep" THEN "poll" ELSE loopPc
    /\ UNCHANGED <<templateActive, frequencies, running, reminderLog, starts, failures,
                   deliveries, lastPoll, prevFailed>>
    /\ UNCHANGED rotationVars
    /\ UNCHANGED expandVars
    /\ UNCHANGED notifyVars
    /\ UNCHANGED taskVars

ServicePoll ==
    \E outcomes \in [1 .. Len(REMINDER_HOURS) -> Outcomes] :
        CheckAndSendReminders(ComputeScheduleCall, outcomes)

BodyPoll ==
    \E result \in {LoopSchedule(now)}, outcomes \in [1 .. Len(REMINDER_HOURS) -> Outcomes] :
        CheckAndSendReminders(result, outcomes)

ReminderMemberLists ==
    {[k \in 1 .. n |-> MemberRow(k, k, TRUE)] : n \in 0 .. MaxMembers}

\* no override, or one for the net of day 1, created as create_schedule_override
\* creates it
ReminderOverrideLists(ms) ==
    LET original == ComputeNcsSchedule(<<At(1, NetTime)>>, ms, <<>>)
        original_user_id == IF original = <<>> THEN None ELSE original[1].user_id
    IN  {<<>>} \cup {<<OverrideRow(1, At(1, NetTime), original_user_id, r, 1)>> :
                        r \in Replacements}

ReminderInit ==
    /\ members \in ReminderMemberLists
    /\ overrides \in ReminderOverrideLists(members)
    /\ nextMemberId = MaxMembers + 1
    /\ nextOverrideId = MaxOverrides + 1
    /\ dates = <<>>
    /\ schedule = <<>>
    /\ computed = FALSE
    /\ lastDeleted = None
    /\ templateActive \in BOOLEAN
    /\ frequencies \in {<<TRUE>>, <<FALSE>>}
    /\ now = StartNow
    /\ running = FALSE
    /\ loopPc = "none"
    /\ reminderLog = {}
    /\ starts = 0
    /\ failures = 0
    /\ deliveries = <<>>
    /\ lastPoll = NoPoll
    /\ prevFailed = {}
    /\ TasksIdle
    /\ ExpandIdle
    /\ NotifyIdle

ReminderNext ==
    \/ Start
    \/ Stop
    \/ Tick
    \/ ServicePoll

ReminderSpec == ReminderInit /\ [][ReminderNext]_vars

BodyNext ==
    \/ Start
    \/ Stop
    \/ Tick
    \/ BodyPoll

BodySpec == ReminderInit /\ [][BodyNext]_vars

----------------------------------------------------------------------------
(* The reminder service at the grain of its await points: start() and      *)
(* stop() calls that interleave with the steps of the _run_loop tasks, one *)
(* or two service instances on the same ncs_reminder_logs table, and       *)
(* NumTemplates templates that share the rotation rows. A task runs from   *)
(* one await to the next in one step; task.cancel() takes effect at the    *)
(* task's next step.                                                       *)

Templates == 1 .. NumTemplates

\* the clock values followed: 18:15, 18:30 and 18:45 of day 0. At 18:15 the
\* 1h reminder of the net of day 0 is due, at 18:30 also the 24h reminder of
\* the net of day 1, at 18:45 only the latter.
LoopFrom == 18 * TicksPerHour + 1

LoopTo == 18 * TicksPerHour + 3

LoopTimes == At(0, LoopFrom) .. At(0, LoopTo)

\* asyncio.create_task(self._run_loop()) of service instance s
NewTask(s) ==
    [svc |-> s, pc |-> "new", cancel |-> FALSE, at |-> None, tpl |-> 1, n |-> 1,
     wakeAt |-> None, schedule |-> <<>>, attempted |-> {}, raised |-> FALSE,
     afterRaise |-> FALSE]

\* the task has finished: only that, and whether it was cancelled, is kept
Ended(t) == [NewTask(t.svc) EXCEPT !.pc = "done", !.cancel = t.cancel]

Alive(id) == tasks[id].pc # "done"

AliveTasks(s) == {id \in 1 .. Len(tasks) : tasks[id].svc = s /\ Alive(id)}

\* whether the schedule call of line 90 raises for template tp
ScheduleCallRaises(tp) == tp \in badTemplates

\* the steps "for entry in schedule: for reminder_hours in REMINDER_HOURS"
\* over the schedule the task holds, numbered as in CheckEntries
Items(t) == 1 .. Len(t.schedule) * Len(REMINDER_HOURS)

ItemEntry(t, k) == t.schedule[((k - 1) \div Len(REMINDER_HOURS)) + 1]

ItemHours(k) == REMINDER_HOURS[((k - 1) % Len(REMINDER_HOURS)) + 1]

\* the entry has a user, is not cancelled and is inside the offset's window
ItemDue(t, k) ==
    /\ ~(ItemEntry(t, k).user_id = None \/ ItemEntry(t, k).is_cancelled)
    /\ InReminderWindow(FromIsoFormat(ItemEntry(t, k).date), t.at, ItemHours(k))

\* the ncs_reminder_logs row of item k of template tp
ItemRow(t, tp, k) ==
    [template_id |-> tp, user_id |-> ItemEntry(t, k).user_id,
     net_date |-> DateOf(FromIsoFormat(ItemEntry(t, k).date)),
     reminder_type |-> ReminderType(ItemHours(k))]

\* the rows of template tp, without the template_id
TemplateLog(tp) ==
    {LogRow(r.user_id, r.net_date, r.reminder_type) :
        r \in {x \in reminderLog : x.template_id = tp}}

\* the (template, item) pairs from (tpl, n) on at which the poll awaits the
\* dedup lookup: a template whose schedule call raises is skipped (continue)
DuePositions(t, tpl, n) ==
    {p \in Templates \X Items(t) :
        /\ ~ScheduleCallRaises(p[1])
        /\ p[1] > tpl \/ (p[1] = tpl /\ p[2] >= n)
        /\ ItemDue(t, p[2])}

NextPosition(P) ==
    CHOOSE p \in P : \A q \in P : p[1] < q[1] \/ (p[1] = q[1] /\ p[2] <= q[2])

\* await asyncio.sleep(self.CHECK_INTERVAL_MINUTES * 60)
Sleep(t) ==
    [t EXCEPT !.pc = "sleeping", !.wakeAt = now + 1, !.schedule = <<>>, !.tpl = 1, !.n = 1]

\* run on from item n of template tpl to the next await
Advance(t, tpl, n) ==
    IF ~templateActive \/ members = <<>> THEN Sleep(t)
    ELSE IF DuePositions(t, tpl, n) = {} THEN Sleep(t)
    ELSE LET p == NextPosition(DuePositions(t, tpl, n))
         IN  [t EXCEPT !.pc = "check", !.tpl = p[1], !.n = p[2]]

\* a failed send that ends the poll
AfterSendFailureAborting(t) == Sleep(t)

\* except Exception of _send_reminder: logged, the loops go on
AfterSendFailure(t) == Advance(t, t.tpl, t.n + 1)

\* an error that escapes _run_loop and ends the task
AfterPollErrorDying(t) == Ended(t)

\* except Exception of _run_loop: logged, then the sleep
AfterPollError(t) == [Sleep(t) EXCEPT !.raised = TRUE]

\* except Exception of _send_reminder after a commit that raised, without
\* db.rollback(): the session refuses the next statement of the poll, the
\* dedup lookup of the next due item, whose error leaves
\* _check_and_send_reminders
AfterCommitFailure(t) ==
    IF AfterSendFailure(t).pc = "check" THEN AfterPollError(t) ELSE AfterSendFailure(t)

Effect(t, log, sent, failed) ==
    [task |-> t, log |-> log, deliveries |-> sent, failures |-> failed]

\* history: task id delivered the reminder of its current item in the poll
\* it began at tasks[id].at
Delivery(id) ==
    [row |-> ItemRow(tasks[id], tasks[id].tpl, tasks[id].n), task |-> id,
     at |-> tasks[id].at]


\* the task resumes with CancelledError, which no except clause of the
\* service catches; landed: whether the awaited send or commit had gone through
CancelStep(id, landed) ==
    LET t == tasks[id]
        ended == Ended(t)
    IN  IF t.pc = "send" /\ landed /\ ~FormatFrequenciesRaises
        THEN Effect(ended, reminderLog, deliveries \cup {Delivery(id)}, failures)
        ELSE IF t.pc = "commit" /\ landed
        THEN Effect(ended, reminderLog \cup {Delivery(id).row}, deliveries, failures)
        ELSE Effect(ended, reminderLog, deliveries, failures)

\* the task runs from its await point to the next one
RunStep(id, outcome) ==
    LET t == tasks[id]
        row == ItemRow(t, t.tpl, t.n)
    IN  CASE t.pc \in {"new", "sleeping"} ->
                \* while self.running:
                IF services[t.svc].running
                THEN Effect([t EXCEPT !.pc = "query", !.at = now, !.attempted = {},
                                      !.raised = FALSE, !.afterRaise = t.raised],
                            reminderLog, deliveries, failures)
                ELSE Effect(Ended(t), reminderLog, deliveries, failures)
          [] t.pc = "query" ->
                \* the select of the active templates
                IF outcome = "fails"
                THEN Effect(AfterPollError(t), reminderLog, deliveries, failures + 1)
                ELSE Effect(Advance([t EXCEPT !.schedule = LoopSchedule(t.at).entries], 1, 1),
                            reminderLog, deliveries, failures)
          [] t.pc = "check" ->
                \* _check_reminder_sent
                IF CheckReminderSent(TemplateLog(t.tpl), row.user_id, row.net_date,
                                     row.reminder_type)
                THEN Effect(Advance(t, t.tpl, t.n + 1), reminderLog, deliveries, failures)
                ELSE Effect([t EXCEPT !.pc = "send"], reminderLog, deliveries, failures)
          [] t.pc = "send" ->
                \* _get_user, then _send_reminder up to the notifier's return
                IF GetUser(row.user_id) = None
                THEN Effect(Advance(t, t.tpl, t.n + 1), reminderLog, deliveries, failures)
                ELSE IF FormatFrequenciesRaises
                THEN Effect(AfterSendFailure([t EXCEPT !.attempted = @ \cup {row}]),
                            reminderLog, deliveries, failures)
                ELSE IF outcome = "fails"
                THEN Effect(AfterSendFailure([t EXCEPT !.attempted = @ \cup {row}]),
                            reminderLog, deliveries, failures + 1)
                ELSE Effect([t EXCEPT !.pc = "commit", !.attempted = @ \cup {row}],
                            reminderLog, deliveries \cup {Delivery(id)}, failures)
          [] t.pc = "commit" ->
                \* db.add(reminder_log); await db.commit()
                IF outcome = "fails"
                THEN Effect(AfterSendFailure(t), reminderLog, deliveries, failures + 1)
                ELSE IF outcome = "breaks"
                THEN Effect(AfterCommitFailure(t), reminderLog, deliveries, failures + 1)
                ELSE Effect(Advance(t, t.tpl, t.n + 1), reminderLog \cup {row},
                            deliveries, failures)

\* the event loop resumes task id
TaskStep(id, outcome, landed) ==
    /\ Alive(id)
    /\ outcome = "breaks" => (tasks[id].pc = "commit" /\ ~tasks[id].cancel)
    /\ (tasks[id].pc = "sleeping" /\ ~tasks[id].cancel) => now >= tasks[id].wakeAt
    /\ \E e \in {IF tasks[id].cancel THEN CancelStep(id, landed) ELSE RunStep(id, outcome)} :
           /\ e.failures <= MaxFailures
           /\ tasks' = [tasks EXCEPT ![id] = e.task]
           /\ reminderLog' = e.log
           /\ deliveries' = e.deliveries
           /\ failures' = e.failures
    /\ UNCHANGED <<services, stopCalls, badTemplates>>
    /\ UNCHANGED <<templateActive, frequencies, now, running, loopPc, starts, lastPoll,
                   prevFailed>>
    /\ UNCHANGED rotationVars
    /\ UNCHANGED expandVars
    /\ UNCHANGED notifyVars

\* start() of service instance s
LoopStart(s) ==
    /\ IF services[s].running
       THEN UNCHANGED <<services, tasks>>
       ELSE /\ Len(tasks) < MaxStarts
            /\ tasks' = Append(tasks, NewTask(s))
            /\ services' = [services EXCEPT ![s] = [running |-> TRUE, task |-> Len(tasks) + 1]]
    /\ UNCHANGED <<stopCalls, badTemplates>>
    /\ UNCHANGED reminderVars
    /\ UNCHANGED rotationVars
    /\ UNCHANGED expandVars
    /\ UNCHANGED notifyVars

\* stop() of service instance s up to "await self._task"
LoopStopCall(s) ==
    /\ services' = [services EXCEPT ![s].running = FALSE]
    /\ IF services[s].task # None
       THEN /\ tasks' = [tasks EXCEPT ![services[s].task].cancel =
                                        @ \/ Alive(services[s].task)]
            /\ stopCalls' = stopCalls \cup {[svc |-> s, task |-> services[s].task]}
       ELSE UNCHANGED <<tasks, stopCalls>>
    /\ UNCHANGED badTemplates
    /\ UNCHANGED reminderVars
    /\ UNCHANGED rotationVars
    /\ UNCHANGED expandVars
    /\ UNCHANGED notifyVars

\* await self._task returns when the task is done
StopMayReturn(call) == ~Alive(call.task)

\* stop() returns
LoopStopReturn ==
    /\ \E call \in stopCalls :
          /\ StopMayReturn(call)
          /\ stopCalls' = stopCalls \ {call}
    /\ UNCHANGED <<services, tasks, badTemplates>>
    /\ UNCHANGED reminderVars
    /\ UNCHANGED rotationVars
    /\ UNCHANGED expandVars
    /\ UNCHANGED notifyVars

\* time passes while every live task sleeps: a quarter of an hour if there
\* is one, any time if there is none
LoopTick ==
    /\ \A id \in 1 .. Len(tasks) :
          Alive(id) => tasks[id].pc = "sleeping" /\ ~tasks[id].cancel
    /\ \E t \in LoopTimes :
          /\ t > now
          /\ (\E id \in 1 .. Len(tasks) : Alive(id)) => t = now + 1
          /\ now' = t
    /\ UNCHANGED taskVars
    /\ UNCHANGED <<templateActive, frequencies, running, loopPc, reminderLog, starts,
                   failures, deliveries, lastPoll, prevFailed>>
    /\ UNCHANGED rotationVars
    /\ UNCHANGED expandVars
    /\ UNCHANGED notifyVars

\* a step goes through, raises, or (a commit) raises and leaves the session
\* in a failed transaction
StepOutcomes == {"ok", "fails", "breaks"}

LoopTaskStep ==
    \E id \in 1 .. Len(tasks), outcome \in StepOutcomes, landed \in BOOLEAN :
        TaskStep(id, outcome, landed)

LoopStartCall == \E s \in DOMAIN services : LoopStart(s)

LoopStop == \E s \in DOMAIN services : LoopStopCall(s)

\* the rotation the loop specifications run on: at most two members, who
\* have the nets of day 0 and day 1
LoopRotationInit ==
    /\ members \in {ms \in ReminderMemberLists : Len(ms) <= 2}
    /\ overrides = <<>>
    /\ nextMemberId = MaxMembers + 1
    /\ nextOverrideId = MaxOverrides + 1
    /\ dates = <<>>
    /\ schedule = <<>>
    /\ computed = FALSE
    /\ lastDeleted = None
    /\ templateActive \in BOOLEAN
    /\ frequencies = <<TRUE>>
    /\ now = At(0, LoopFrom)
    /\ running = FALSE
    /\ loopPc = "none"
    /\ reminderLog = {}
    /\ starts = 0
    /\ failures = 0
    /\ deliveries = {}
    /\ lastPoll = NoPoll
    /\ prevFailed = {}
    /\ tasks = <<>>
    /\ stopCalls = {}
    /\ ExpandIdle
    /\ NotifyIdle

\* the service as src/ has it: the schedule call raises for every template
LoopInit ==
    /\ LoopRotationInit
    /\ services = [s \in {1} |-> NoService]
    /\ badTemplates = {tp \in Templates : ComputeScheduleCall.raised}

LoopNext ==
    \/ LoopStartCall
    \/ LoopStop
    \/ LoopStopReturn
    \/ LoopTaskStep
    \/ LoopTick

LoopSpec == LoopInit /\ [][LoopNext]_vars

\* the loop body on the schedule it is written for; the first template may be
\* one whose schedule cannot be computed
LoopBodyInit ==
    /\ LoopRotationInit
    /\ services = [s \in {1} |-> NoService]
    /\ badTemplates \in SUBSET {1}

LoopBodySpec == LoopBodyInit /\ [][LoopNext]_vars

\* two service instances, never stopped, no failing step
RaceInit ==
    /\ LoopRotationInit
    /\ services = [s \in {1, 2} |-> NoService]
    /\ badTemplates = {}

RaceTaskStep ==
    \E id \in 1 .. Len(tasks) : TaskStep(id, "ok", TRUE)

RaceNext ==
    \/ LoopStartCall
    \/ RaceTaskStep
    \/ LoopTick

RaceSpec == RaceInit /\ [][RaceNext]_vars

----------------------------------------------------------------------------
(* The schedule queries of a rotation that does not change, asked on       *)
(* different days.                                                         *)

\* the last day on which a query is followed
MaxQueryDay == 3

\* get_next_ncs: the schedule of dates[:1], whose only entry is returned
GetNextNcs ==
    /\ dates' = SubSeq(CalculateScheduleDates(Today), 1, 1)
    /\ schedule' = ComputeNcsSchedule(SubSeq(CalculateScheduleDates(Today), 1, 1),
                                      members, overrides)
    /\ computed' = TRUE
    /\ NoBackgroundTasks
    /\ UNCHANGED <<members, overrides, nextOverrideId, nextMemberId, lastDeleted>>
    /\ UNCHANGED reminderVars
    /\ UNCHANGED taskVars
    /\ UNCHANGED expandVars
    /\ UNCHANGED subscriptions

\* midnight passes
DayPasses ==
    /\ DateOf(now) < MaxQueryDay
    /\ now' = now + TicksPerDay
    /\ UNCHANGED <<templateActive, frequencies, running, loopPc, reminderLog, starts,
                   failures, deliveries, lastPoll, prevFailed>>
    /\ UNCHANGED rotationVars
    /\ UNCHANGED taskVars
    /\ UNCHANGED expandVars
    /\ UNCHANGED notifyVars

QueryInit ==
    /\ members \in ReminderMemberLists
    /\ overrides \in ReminderOverrideLists(members)
    /\ nextMemberId = MaxMembers + 1
    /\ nextOverrideId = MaxOverrides + 1
    /\ dates = <<>>
    /\ schedule = <<>>
    /\ computed = FALSE
    /\ lastDeleted = None
    /\ ReminderIdle
    /\ TasksIdle
    /\ ExpandIdle
    /\ NotifyIdle

QueryNext ==
    \/ GetNcsSchedule
    \/ GetNextNcs
    \/ DayPasses

QuerySpec == QueryInit /\ [][QueryNext]_vars

----------------------------------------------------------------------------
(* calculate_schedule_dates as a function of the template's schedule, the  *)
(* start date and months_ahead, on a calendar whose day 0 is 1 January of  *)
(* a year that is not a leap year. The schedule_config has no 'time', so   *)
(* the nets are at 19:00.                                                  *)

MaxStartDay == 58
MaxMonthsAhead == 2

\* the days of January to June
MonthLengths == <<31, 28, 31, 30, 31, 30>>

\* the day number of the first day of month m, January being month 1
RECURSIVE MonthStart(_)
MonthStart(m) == IF m = 1 THEN 0 ELSE MonthStart(m - 1) + MonthLengths[m - 1]

MonthOf(day) ==
    CHOOSE m \in 1 .. Len(MonthLengths) :
        MonthStart(m) <= day /\ day < MonthStart(m) + MonthLengths[m]

\* date.day
DayOfMonth(day) == day - MonthStart(MonthOf(day)) + 1

\* date.weekday(): 0 = Monday .. 6 = Sunday
Weekday(day) == (newYearWeekday + day) % 7

TimeOf(dt) == dt % TicksPerDay

\* dt + relativedelta(months=n): the same day of the month n months later,
\* or that month's last day if it has no such day; the time is kept
AddMonths(dt, n) ==
    LET m == MonthOf(DateOf(dt)) + n
        day == IF DayOfMonth(DateOf(dt)) <= MonthLengths[m]
               THEN DayOfMonth(DateOf(dt))
               ELSE MonthLengths[m]
    IN  At(MonthStart(m) + day - 1, TimeOf(dt))

\* dt.replace(hour=hour, minute=minute) with the time of the config
ReplaceTime(dt) == At(DateOf(dt), NetTime)

\* a conversion that takes day_of_week for Python's weekday
PythonWeekdaySame(day_of_week) == day_of_week

\* (day_of_week - 1) % 7 if day_of_week > 0 else 6
PythonWeekday(day_of_week) ==
    IF day_of_week > 0 THEN (day_of_week - 1) % 7 ELSE 6

\* the elements of a set of numbers in ascending order
Ascending(S) ==
    [k \in 1 .. Cardinality(S) |->
        CHOOSE x \in S : Cardinality({y \in S : y < x}) = k - 1]

\* rrule(DAILY, dtstart=start_date, until=end_date): the days from the start
\* day on, at the start's time, up to end_date
RruleDays(start, end) ==
    {day \in DateOf(start) .. DateOf(end) : At(day, TimeOf(start)) <= end}

\* the days of month m that fall on python_weekday, in order
WeekOccurrences(m, python_weekday) ==
    Ascending({day \in MonthStart(m) .. MonthStart(m) + MonthLengths[m] - 1 :
                  Weekday(day) = python_weekday})

\* a selector 5 that means the fifth occurrence only
SelectWeekStrict(week_occurrences, week_num) ==
    IF 1 <= week_num /\ week_num <= Len(week_occurrences)
    THEN <<week_occurrences[week_num]>>
    ELSE <<>>

\* what one week_num of week_of_month appends: for 5 the last occurrence,
\* else the week_num-th if the month has it
SelectWeek(week_occurrences, week_num) ==
    IF week_num = 5
    THEN IF week_occurrences # <<>>
         THEN <<week_occurrences[Len(week_occurrences)]>>
         ELSE <<>>
    ELSE IF 1 <= week_num /\ week_num <= Len(week_occurrences)
    THEN <<week_occurrences[week_num]>>
    ELSE <<>>

\* for week_num in weeks_of_month, from the k-th selector on
RECURSIVE SelectWeeks(_, _, _)
SelectWeeks(week_occurrences, weeks_of_month, k) ==
    IF k > Len(weeks_of_month) THEN <<>>
    ELSE SelectWeek(week_occurrences, weeks_of_month[k])
         \o SelectWeeks(week_occurrences, weeks_of_month, k + 1)

\* the while loop over the months, from month m on: current is the first of
\* the month at the start's time
RECURSIVE MonthlyDays(_, _, _, _)
MonthlyDays(template, start, end, m) ==
    IF At(MonthStart(m), TimeOf(start)) > end THEN <<>>
    ELSE SelectWeeks(WeekOccurrences(m, PythonWeekday(template.day_of_week)),
                     template.week_of_month, 1)
         \o MonthlyDays(template, start, end, m + 1)

\* sorted(ds): the k-th element is the value with fewer than k smaller
\* elements and at least k elements not greater; equal elements are all kept
SortDates(ds) ==
    [k \in 1 .. Len(ds) |->
        CHOOSE d \in {ds[i] : i \in 1 .. Len(ds)} :
            /\ Cardinality({i \in 1 .. Len(ds) : ds[i] < d}) < k
            /\ k <= Cardinality({i \in 1 .. Len(ds) : ds[i] <= d})]

\* calculate_schedule_dates(template, start_date, months_ahead)
CalculateScheduleDatesOf(template, start, months) ==
    IF template.schedule_type = "ad_hoc" THEN <<>>
    ELSE LET end == AddMonths(start, months)
             days ==
                 IF template.schedule_type = "daily"
                 THEN Ascending(RruleDays(start, end))
                 ELSE IF template.schedule_type = "weekly"
                 THEN Ascending({day \in RruleDays(start, end) :
                                    Weekday(day) = PythonWeekday(template.day_of_week)})
                 ELSE IF template.schedule_type = "monthly"
                 THEN MonthlyDays(template, start, end, MonthOf(DateOf(start)))
                 ELSE <<>>
             all == [k \in 1 .. Len(days) |-> ReplaceTime(At(days[k], TimeOf(start)))]
         IN  SortDates(SelectSeq(all, LAMBDA d : d >= start))

\* the week_of_month lists followed
WeekSelectors == {<<1>>, <<5>>, <<4, 5>>, <<1, 3>>}

ExpandTemplates ==
    {[schedule_type |-> "daily", day_of_week |-> 0, week_of_month |-> <<1>>],
     [schedule_type |-> "ad_hoc", day_of_week |-> 0, week_of_month |-> <<1>>]}
    \cup {[schedule_type |-> "weekly", day_of_week |-> d, week_of_month |-> <<1>>] :
              d \in 0 .. 6}
    \cup {[schedule_type |-> "monthly", day_of_week |-> d, week_of_month |-> w] :
              d \in 0 .. 6, w \in WeekSelectors}

\* midnight, as get_ncs_schedule passes it, and 20:00, after the net
StartTimes == {0, 20 * TicksPerHour}

ExpandInit ==
    /\ expandTemplate \in ExpandTemplates
    /\ start_date \in {At(day, time) : day \in 0 .. MaxStartDay, time \in StartTimes}
    /\ months_ahead \in 1 .. MaxMonthsAhead
    /\ newYearWeekday \in 0 .. 6
    /\ expanded = <<>>
    /\ expandDone = FALSE
    /\ members = <<>>
    /\ overrides = <<>>
    /\ nextMemberId = 1
    /\ nextOverrideId = 1
    /\ dates = <<>>
    /\ schedule = <<>>
    /\ computed = FALSE
    /\ lastDeleted = None
    /\ ReminderIdle
    /\ TasksIdle
    /\ NotifyIdle

ExpandApply ==
    /\ ~expandDone
    /\ expanded' = CalculateScheduleDatesOf(expandTemplate, start_date, months_ahead)
    /\ expandDone' = TRUE
    /\ UNCHANGED <<expandTemplate, start_date, months_ahead, newYearWeekday>>
    /\ UNCHANGED rotationVars
    /\ UNCHANGED reminderVars
    /\ UNCHANGED taskVars
    /\ UNCHANGED notifyVars

ExpandNext == ExpandApply

ExpandSpec == ExpandInit /\ [][ExpandNext]_vars

----------------------------------------------------------------------------
(* Claims about compute_ncs_schedule, under FnSpec *)

NumActive(ms) == Cardinality({k \in 1 .. Len(ms) : ms[k].is_active})

\* how many active rows come before row k in position order, rows of equal
\* position in list order
RankAmongActive(ms, k) ==
    Cardinality({j \in 1 .. Len(ms) :
        /\ ms[j].is_active
        /\ \/ ms[j].position < ms[k].position
           \/ ms[j].position = ms[k].position /\ j < k})

RowsOfDay(ovs, day) ==
    SelectSeq(ovs, LAMBDA o : DateOf(o.scheduled_date) = day)

NoRowOnDay(ovs, day) ==
    \A k \in 1 .. Len(ovs) : DateOf(ovs[k].scheduled_date) # day

\* C2: with a non-empty dates list and N >= 1 active members, the schedule has
\* one entry per date, and the entry at 0-based index i that is not an override
\* is assigned the active member of rank (i mod N) in position order; inactive
\* members count neither in the rank nor in N.
C2_BaseRotation ==
    (computed /\ dates # <<>> /\ NumActive(members) >= 1) =>
        /\ Len(schedule) = Len(dates)
        /\ \A i \in 0 .. Len(dates) - 1 :
              ~schedule[i + 1].is_override =>
                  \E k \in 1 .. Len(members) :
                      /\ members[k].is_active
                      /\ RankAmongActive(members, k) = i % NumActive(members)
                      /\ schedule[i + 1].user_id = members[k].user_id

\* three members, the one in the middle of the order inactive, four dates
\* without override: the third and fourth entries wrap around two members
C2_Witness ==
    /\ computed
    /\ Len(members) = 3 /\ NumActive(members) = 2
    /\ \E k \in 1 .. 3 : ~members[k].is_active /\ RankAmongActive(members, k) = 1
    /\ Len(schedule) = 4
    /\ \A i, j \in 1 .. 4 : i # j => dates[i] # dates[j]
    /\ \A i \in 1 .. 4 : ~schedule[i].is_override
    /\ schedule[1].user_id # schedule[2].user_id
    /\ schedule[3].user_id = schedule[1].user_id
    /\ schedule[4].user_id = schedule[2].user_id

\* C3: overrides do not shift the rotation. An entry on a day without any
\* override row equals the entry computed for the same dates and members with
\* an empty override table, and every entry depends only on the override rows
\* of its own day, so a row created, changed or deleted for one day leaves the
\* entries of all other days as they were.
C3_OverridesDoNotShift ==
    (computed /\ schedule # <<>>) =>
        \A i \in 1 .. Len(dates) :
            /\ NoRowOnDay(overrides, DateOf(dates[i])) =>
                   schedule[i] = ComputeNcsSchedule(dates, members, <<>>)[i]
            /\ schedule[i] =
                   ComputeNcsSchedule(dates, members,
                                      RowsOfDay(overrides, DateOf(dates[i])))[i]

\* the second of four occurrences is cancelled, the fourth is still the first
\* member's
C3_Witness ==
    /\ computed
    /\ NumActive(members) = 3
    /\ Len(schedule) = 4
    /\ schedule[2].is_cancelled
    /\ \A i \in {1, 3, 4} : NoRowOnDay(overrides, DateOf(dates[i]))
    /\ \A i, j \in 1 .. 4 : i # j => dates[i] # dates[j]
    /\ schedule[4].user_id = schedule[1].user_id
    /\ schedule[3].user_id # schedule[1].user_id

\* C4: an entry on a day with an override row is marked is_override and shows
\* one such row: that row's reason, and no user with is_cancelled when the
\* row's replacement_user_id is null, else the replacement user without
\* is_cancelled. An entry on a day without override row has is_override and
\* is_cancelled false.
C4_OverrideOverlay ==
    (computed /\ schedule # <<>>) =>
        \A i \in 1 .. Len(dates) :
            IF NoRowOnDay(overrides, DateOf(dates[i]))
            THEN ~schedule[i].is_override /\ ~schedule[i].is_cancelled
            ELSE /\ schedule[i].is_override
                 /\ \E k \in 1 .. Len(overrides) :
                       /\ DateOf(overrides[k].scheduled_date) = DateOf(dates[i])
                       /\ schedule[i].override_reason = overrides[k].reason
                       /\ IF overrides[k].replacement_user_id = None
                          THEN schedule[i].user_id = None /\ schedule[i].is_cancelled
                          ELSE /\ schedule[i].user_id = overrides[k].replacement_user_id
                               /\ ~schedule[i].is_cancelled

\* one schedule with a cancelled, a swapped and a plain entry
C4_Witness ==
    /\ computed
    /\ \E a, b, c \in 1 .. Len(schedule) :
          /\ schedule[a].is_override /\ schedule[a].is_cancelled
          /\ schedule[a].user_id = None /\ schedule[a].override_reason # None
          /\ schedule[b].is_override /\ ~schedule[b].is_cancelled
          /\ schedule[b].user_id # None /\ schedule[b].override_reason # None
          /\ ~schedule[c].is_override /\ ~schedule[c].is_cancelled

----------------------------------------------------------------------------
(* Claims about the override endpoints, under Spec *)

\* C10: after delete_schedule_override removed the override row of occurrence
\* D, the next get_ncs_schedule shows D with the base rotation's member for
\* D's index, is_override and is_cancelled false, whatever rows were created
\* before.
C10_DeleteReverts ==
    (computed /\ lastDeleted # None /\ schedule # <<>>) =>
        \A i \in 1 .. Len(dates) :
            dates[i] = lastDeleted =>
                /\ ~schedule[i].is_override
                /\ ~schedule[i].is_cancelled
                /\ \E k \in 1 .. Len(members) :
                      /\ members[k].is_active
                      /\ RankAmongActive(members, k) = (i - 1) % NumActive(members)
                      /\ schedule[i].user_id = members[k].user_id

----------------------------------------------------------------------------
(* Claims about the override and member endpoints, under Spec *)

\* the schedule get_ncs_schedule shows when no override exists
BaseSchedule ==
    ComputeNcsSchedule(CalculateScheduleDates(Today), members, <<>>)

IsOccurrence(d) ==
    \E i \in 1 .. MaxDates : CalculateScheduleDates(Today)[i] = d

\* the user get_ncs_schedule shows for occurrence d when no override exists
BaseUserShown(d) ==
    LET i == CHOOSE j \in 1 .. MaxDates : CalculateScheduleDates(Today)[j] = d
    IN  BaseSchedule[i].user_id

\* C11: a create_schedule_override call for an occurrence D stores as
\* original_user_id the user the schedule computed without overrides assigns
\* to D, the user get_ncs_schedule shows for D while no override exists.
C11_OriginalIsBaseUser ==
    [][\A k \in 1 .. Len(overrides') :
          (/\ Len(overrides') >= Len(overrides)
           /\ \/ k > Len(overrides)
              \/ overrides'[k] # overrides[k]
           /\ IsOccurrence(overrides'[k].scheduled_date)
           /\ BaseSchedule # <<>>) =>
              overrides'[k].original_user_id = BaseUserShown(overrides'[k].scheduled_date)]_vars

\* C12: a second create_schedule_override call for the scheduled_date of an
\* existing row leaves one row for that key and keeps the original_user_id the
\* row got at creation, whatever happened to the members in between.
C12_UpsertKeepsOriginal ==
    [][\A k \in 1 .. Len(overrides) :
          (Len(overrides') = Len(overrides) /\ overrides'[k].reason # overrides[k].reason) =>
              /\ overrides'[k].id = overrides[k].id
              /\ overrides'[k].scheduled_date = overrides[k].scheduled_date
              /\ overrides'[k].original_user_id = overrides[k].original_user_id
              /\ Cardinality({j \in 1 .. Len(overrides') :
                     overrides'[j].scheduled_date = overrides[k].scheduled_date}) = 1]_vars

\* C13: no two ncs_schedule_overrides rows of the template have the same
\* scheduled_date timestamp.
C13_OneRowPerTimestamp ==
    \A a, b \in 1 .. Len(overrides) :
        a # b => overrides[a].scheduled_date # overrides[b].scheduled_date

\* two rows on the same day at different times
C13_Witness ==
    /\ Len(overrides) = 2
    /\ DateOf(overrides[1].scheduled_date) = DateOf(overrides[2].scheduled_date)
    /\ overrides[1].scheduled_date # overrides[2].scheduled_date

\* C20: no two rotation members of the template reference the same user.
C20_MembersDistinctUsers ==
    \A a, b \in 1 .. Len(members) :
        a # b => members[a].user_id # members[b].user_id

\* two members of different users, the second added while the first was there
C20_Witness ==
    /\ Len(members) = 2
    /\ members[1].id < members[2].id
    /\ members[1].user_id # members[2].user_id

----------------------------------------------------------------------------
(* Claims about the reminder service *)

\* the schedule of the occurrences from the day of t on
ResolvedAt(t) ==
    ComputeNcsSchedule(CalculateScheduleDates(DateOf(t)), members, overrides)

\* the combinations a poll at t finds inside a reminder window: an entry with
\* a user that is not cancelled, and an offset whose window holds t
DueAt(t) ==
    {LogRow(ResolvedAt(t)[i].user_id, DateOf(ResolvedAt(t)[i].date),
            ReminderType(REMINDER_HOURS[k])) :
        <<i, k>> \in {p \in (1 .. Len(ResolvedAt(t))) \X (1 .. Len(REMINDER_HOURS)) :
            /\ ResolvedAt(t)[p[1]].user_id # None
            /\ ~ResolvedAt(t)[p[1]].is_cancelled
            /\ InReminderWindow(ResolvedAt(t)[p[1]].date, t, REMINDER_HOURS[p[2]])}}

OtherTypes(c) ==
    {[c EXCEPT !.reminder_type = ty] : ty \in ReminderTypes \ {c.reminder_type}}

C5_DueRemindersSent ==
    (lastPoll.ran /\ templateActive /\ members # <<>>) =>
        \A c \in DueAt(lastPoll.at) :
            (c \notin lastPoll.logBefore /\ GetUser(c.user_id) # None) =>
                /\ c \in lastPoll.invoked
                /\ c \notin lastPoll.failed => c \in reminderLog

----------------------------------------------------------------------------
(* Claims about the service's lifecycle and its tasks *)

StopPending(s) == \E call \in stopCalls : call.svc = s

\* the rows of template tp that a poll begun at t finds due
DueRows(tp, t) ==
    {[template_id |-> tp, user_id |-> c.user_id, net_date |-> c.net_date,
      reminder_type |-> c.reminder_type] : c \in DueAt(t)}

\* C14: whatever start() and stop() calls were made and however they
\* interleave with the loop, each service has at most one loop task that has
\* not finished, and a step creates a task only for a service that is not
\* running.
C14_OneLoopAlive ==
    /\ [](\A s \in DOMAIN services : Cardinality(AliveTasks(s)) <= 1)
    /\ [][Len(tasks') > Len(tasks) => ~services[tasks'[Len(tasks')].svc].running]_vars

\* a service that is stopped and has no stop() call still waiting has no live
\* loop task, and a task whose cancellation was requested can end at once,
\* also in the middle of its sleep
StoppedServiceHasNoLoop ==
    /\ \A s \in DOMAIN services :
          (~services[s].running /\ ~StopPending(s)) => AliveTasks(s) = {}
    /\ \A id \in 1 .. Len(tasks) :
          (Alive(id) /\ tasks[id].cancel) =>
              ENABLED (\E outcome \in StepOutcomes, landed \in BOOLEAN :
                          TaskStep(id, outcome, landed))

\* C15: at the step in which a stop() call returns, its service is stopped
\* and has no live loop task, so nothing polls, sends or logs from then until
\* a later start(); and a stop() issued while the loop sleeps does not wait
\* for the end of the sleep.
C15_StopAwaitsLoop ==
    /\ [][\A call \in stopCalls \ stopCalls' :
              /\ ~services'[call.svc].running
              /\ AliveTasks(call.svc)' = {}]_vars
    /\ []StoppedServiceHasNoLoop

C17_LoopSurvivesErrors ==
    \A id \in 1 .. Len(tasks) :
        /\ tasks[id].pc = "done" => tasks[id].cancel
        /\ (tasks[id].raised /\ ~tasks[id].cancel) =>
              /\ tasks[id].pc = "sleeping"
              /\ services[tasks[id].svc].running
              /\ now >= tasks[id].wakeAt =>
                    ENABLED (\E outcome \in StepOutcomes, landed \in BOOLEAN :
                                TaskStep(id, outcome, landed))

\* a poll raised, the task slept and has begun the next poll
C17_Witness ==
    \E id \in 1 .. Len(tasks) :
        /\ tasks[id].afterRaise
        /\ tasks[id].pc = "query"
        /\ ~tasks[id].cancel

----------------------------------------------------------------------------
(* Claims about positions and permissions, under Spec *)

\* C21: the row a step adds to the rotation has a position greater than that
\* of every row that was there, one more than the greatest of them, 1 when
\* the rotation was empty and 2 when it held one row of position 1; the rows
\* that were there stay as they were.
C21_AddAppendsAtEnd ==
    [][Len(members') = Len(members) + 1 =>
          /\ \A k \in 1 .. Len(members) :
                /\ members'[k] = members[k]
                /\ members'[Len(members')].position > members[k].position
          /\ members = <<>> => members'[Len(members')].position = 1
          /\ members # <<>> =>
                \E k \in 1 .. Len(members) :
                    members'[Len(members')].position = members[k].position + 1
          /\ (Len(members) = 1 /\ members[1].position = 1) =>
                members'[Len(members')].position = 2]_vars

\* a member was added after a reorder had moved the only member to position
\* 2: the new row has position 3, which no reorder of MaxAdds ids assigns
C21_Witness ==
    \E k \in 1 .. Len(members) : members[k].position = MaxAdds + 1

\* the ids of the rows of the template
MemberIds == {members[k].id : k \in 1 .. Len(members)}

\* how many of the first i ids of the list belong to the template
RankInList(member_ids, i) ==
    Cardinality({j \in 1 .. i : member_ids[j] \in MemberIds})

\* C22: a reorder request whose list names no id twice gives each named
\* member the rank of its id among the listed ids that belong to the template
\* (1 .. N in the order of the list) and leaves every other row as it was.
C22_ReorderAssignsRanks ==
    [][\A a \in Actors, member_ids \in ReorderLists :
          ((\A i, j \in 1 .. Len(member_ids) : member_ids[i] = member_ids[j] => i = j)
           /\ ReorderRotationMembers(a, member_ids)) =>
              /\ Len(members') = Len(members)
              /\ \A k \in 1 .. Len(members) :
                    /\ \A i \in 1 .. Len(member_ids) :
                          member_ids[i] = members[k].id =>
                              members'[k] = [members[k] EXCEPT
                                                !.position = RankInList(member_ids, i)]
                    /\ members[k].id \notin {member_ids[i] : i \in 1 .. Len(member_ids)} =>
                          members'[k] = members[k]]_vars

\* C28: the rows of the rotation have pairwise distinct positions.
C28_DistinctPositions ==
    \A a, b \in 1 .. Len(members) :
        a # b => members[a].position # members[b].position

\* the users who may manage the rotation: an admin, the owner of the
\* template, and the users of the current rows
MayManage(user) ==
    \/ user = AdminUser
    \/ user = OwnerId
    \/ user \in {members[k].user_id : k \in 1 .. Len(members)}

\* the step is a request of `user` that the handler carried out
RequestBy(user) ==
    \/ \E u \in Users : AddRotationMember(user, u)
    \/ \E id \in 1 .. MaxAdds : RemoveRotationMember(user, id)
    \/ \E ids \in ReorderLists : ReorderRotationMembers(user, ids)
    \/ \E sd \in OverrideTimes, r \in Replacements, why \in Reasons :
          CreateScheduleOverride(user, sd, r, why)
    \/ \E id \in 1 .. MaxOverrides : DeleteScheduleOverride(user, id)

\* C26: for a user who at the moment is neither admin, nor owner, nor the
\* user of a row of the rotation, no add, remove, reorder, create-override
\* or delete-override request is carried out: every one is refused before
\* it writes, so neither table changes; a user whose row was removed is
\* refused from the next request on.
C26_OnlyManagersChange ==
    \A user \in Actors : ~MayManage(user) => ~ENABLED RequestBy(user)

\* a member who is not the owner was added and removed again: that user is
\* refused now
C26_Witness ==
    /\ nextMemberId > 1
    /\ members = <<>>
    /\ \E user \in Actors : ~MayManage(user)

\* C30: no two override rows fall on the same calendar day, the key under
\* which compute_ncs_schedule applies a row to an occurrence.
C30_OneRowPerOccurrence ==
    \A a, b \in 1 .. Len(overrides) :
        a # b => DateOf(overrides[a].scheduled_date) # DateOf(overrides[b].scheduled_date)

----------------------------------------------------------------------------
(* Claims about the schedule queries over time, under QuerySpec *)

\* what get_ncs_schedule returns when asked on `day`, the rows being those
\* of the state
ScheduleOn(day) ==
    ComputeNcsSchedule(CalculateScheduleDates(day), members, overrides)

\* C27: every entry of the last response, of get_ncs_schedule or of
\* get_next_ncs, names the user that get_ncs_schedule names for the same
\* occurrence when asked on any day up to today, members and overrides being
\* unchanged.
C27_AssigneeStable ==
    computed =>
        \A i \in 1 .. Len(schedule), day \in 0 .. Today :
            \A j \in 1 .. Len(ScheduleOn(day)) :
                ScheduleOn(day)[j].date = schedule[i].date =>
                    ScheduleOn(day)[j].user_id = schedule[i].user_id

----------------------------------------------------------------------------
(* Claims about calculate_schedule_dates, under ExpandSpec *)

\* the weekday of the schedule_config: 0 = Sunday, 1 = Monday .. 6 = Saturday
ExternalWeekday(day) == (Weekday(day) + 1) % 7

\* C23: the occurrences of a weekly template all fall on the weekday of the
\* config (0 = Sunday .. 6 = Saturday), each is 7 days after the one before
\* it, and none is before start_date.
C23_WeeklyOccurrences ==
    (expandDone /\ expandTemplate.schedule_type = "weekly") =>
        \A i \in 1 .. Len(expanded) :
            /\ ExternalWeekday(DateOf(expanded[i])) = expandTemplate.day_of_week
            /\ expanded[i] >= start_date
            /\ i < Len(expanded) => expanded[i + 1] = expanded[i] + 7 * TicksPerDay

\* a weekly template on Sundays, asked at 20:00 of a Sunday: that day's net
\* is left out and at least four later Sundays are returned
C23_Witness ==
    /\ expandDone
    /\ expandTemplate.schedule_type = "weekly"
    /\ expandTemplate.day_of_week = 0
    /\ ExternalWeekday(DateOf(start_date)) = 0
    /\ TimeOf(start_date) > NetTime
    /\ Len(expanded) >= 4

\* C29: the occurrences returned are strictly ascending, so none is returned
\* twice.
C29_StrictlyAscending ==
    expandDone =>
        \A i \in 1 .. Len(expanded) - 1 : expanded[i] < expanded[i + 1]

\* the months the expansion covers: from the month of start_date to the
\* month of start_date + relativedelta(months=months_ahead)
MonthsOfRange ==
    MonthOf(DateOf(start_date)) .. MonthOf(DateOf(AddMonths(start_date, months_ahead)))

\* the last day of month m on the weekday of the config
LastMatch(m) ==
    CHOOSE day \in MonthStart(m) .. MonthStart(m) + MonthLengths[m] - 1 :
        /\ ExternalWeekday(day) = expandTemplate.day_of_week
        /\ day + 7 > MonthStart(m) + MonthLengths[m] - 1

\* the returned occurrences that fall in month m
OccurrencesIn(m) ==
    {i \in 1 .. Len(expanded) : MonthOf(DateOf(expanded[i])) = m}

\* C24 as stated: for a monthly template with week_of_month [5], every
\* month of the range has exactly one occurrence, on the last day of the
\* month that falls on the configured weekday.
C24_LastMatchEveryMonth ==
    (expandDone /\ expandTemplate.schedule_type = "monthly"
                /\ expandTemplate.week_of_month = <<5>>) =>
        \A m \in MonthsOfRange :
            /\ Cardinality(OccurrencesIn(m)) = 1
            /\ \A i \in OccurrencesIn(m) : DateOf(expanded[i]) = LastMatch(m)

\* C24: for a monthly template with week_of_month [5], every month of the
\* range whose last day on the configured weekday is, at the net's time, not
\* before start_date has exactly one occurrence, on that day; a month in
\* which it is before start_date (only the month of start_date can be) has
\* none; and no occurrence falls outside these months.
C24_LastMatchFromStart ==
    (expandDone /\ expandTemplate.schedule_type = "monthly"
                /\ expandTemplate.week_of_month = <<5>>) =>
        /\ \A m \in MonthsOfRange :
              IF At(LastMatch(m), NetTime) >= start_date
              THEN /\ Cardinality(OccurrencesIn(m)) = 1
                   /\ \A i \in OccurrencesIn(m) : DateOf(expanded[i]) = LastMatch(m)
              ELSE /\ OccurrencesIn(m) = {}
                   /\ m = MonthOf(DateOf(start_date))
        /\ \A i \in 1 .. Len(expanded) : MonthOf(DateOf(expanded[i])) \in MonthsOfRange

\* a start in January: January's occurrence is the fifth of its weekday,
\* February's the fourth
C24_Witness ==
    /\ expandDone
    /\ expandTemplate.schedule_type = "monthly"
    /\ expandTemplate.week_of_month = <<5>>
    /\ Len(expanded) >= 2
    /\ DayOfMonth(DateOf(expanded[1])) > 28
    /\ MonthOf(DateOf(expanded[2])) = 2
    /\ DayOfMonth(DateOf(expanded[2])) <= 28

----------------------------------------------------------------------------
(* The cancellation notices of create_schedule_override: the override is   *)
(* committed, the notices are added to the request's BackgroundTasks, and  *)
(* the tasks run one after another once the response has been sent.        *)

MaxSubscribers == 2

\* net_template_subscriptions of the template: one row per user
SubscriptionLists ==
    {s \in UNION {[1 .. n -> Actors] : n \in 0 .. MaxSubscribers} :
        \A j, k \in 1 .. Len(s) : s[j] = s[k] => j = k}

TaskOutcomes == {"sent", "raises"}

\* the next task of the request runs: EmailService.send_net_cancellation
\* returns, or send_email re-raises and the remaining tasks are not run
RunBackgroundTask(outcome) ==
    /\ backgroundTasks # <<>>
    /\ backgroundTasks' = IF outcome = "sent" THEN Tail(backgroundTasks) ELSE <<>>
    /\ UNCHANGED subscriptions
    /\ UNCHANGED rotationVars
    /\ UNCHANGED reminderVars
    /\ UNCHANGED taskVars
    /\ UNCHANGED expandVars

RunTask == \E outcome \in TaskOutcomes : RunBackgroundTask(outcome)

NotifyInit ==
    /\ members \in ReminderMemberLists
    /\ overrides = <<>>
    /\ nextMemberId = MaxMembers + 1
    /\ nextOverrideId = 1
    /\ dates = <<>>
    /\ schedule = <<>>
    /\ computed = FALSE
    /\ lastDeleted = None
    /\ subscriptions \in SubscriptionLists
    /\ backgroundTasks = <<>>
    /\ ReminderIdle
    /\ TasksIdle
    /\ ExpandIdle

\* the requests followed: overrides with the first reason
CreateOrCancel ==
    \E a \in Actors, sd \in OverrideTimes, r \in Replacements :
        CreateScheduleOverride(a, sd, r, SetMin(Reasons))

NotifyNext ==
    \/ CreateOrCancel
    \/ RunTask

NotifySpec == NotifyInit /\ [][NotifyNext]_vars

----------------------------------------------------------------------------
(* Claims about the cancellation notices, under NotifySpec *)

Subscribers == {subscriptions[k] : k \in 1 .. Len(subscriptions)}

\* the tasks of the queue to user u with the given tag
TasksTo(queue, u, is_ncs) ==
    {k \in 1 .. Len(queue) : queue[k].to = u /\ queue[k].is_ncs = is_ncs}

\* the queue a cancellation of the occurrence whose row stores
\* original_user_id must leave
FanOut(queue, original_user_id) ==
    /\ \A u \in Actors :
          /\ Cardinality(TasksTo(queue, u, TRUE)) =
                 IF u = original_user_id THEN 1 ELSE 0
          /\ Cardinality(TasksTo(queue, u, FALSE)) =
                 IF u \in Subscribers /\ u # original_user_id THEN 1 ELSE 0
    /\ \A k \in 1 .. Len(queue) : queue[k].to \in Actors

\* C25: a create_schedule_override call with replacement_user_id = None
\* queues exactly one is_ncs notice to the user stored as original_user_id
\* and exactly one plain notice to every other subscriber, never both kinds
\* to one user; with a replacement it queues nothing; and a step that
\* runs a queued notice, whether it is sent or raises, leaves the override
\* rows as they were committed.
C25_CancellationFanOut ==
    /\ [][\A a \in Actors, sd \in OverrideTimes, r \in Replacements :
              CreateScheduleOverride(a, sd, r, SetMin(Reasons)) =>
                  IF r = None
                  THEN \E k \in 1 .. Len(overrides') :
                          /\ overrides'[k].scheduled_date = sd
                          /\ overrides'[k].replacement_user_id = None
                          /\ FanOut(backgroundTasks', overrides'[k].original_user_id)
                  ELSE backgroundTasks' = <<>>]_vars
    /\ [][RunTask => overrides' = overrides]_vars

\* a cancellation whose original NCS is also a subscriber has queued the
\* NCS notice and a subscriber's notice
C25_Witness ==
    /\ \E k \in 1 .. Len(backgroundTasks) :
          /\ backgroundTasks[k].is_ncs
          /\ backgroundTasks[k].to \in Subscribers
    /\ \E k \in 1 .. Len(backgroundTasks) : ~backgroundTasks[k].is_ncs
    /\ \E k \in 1 .. Len(overrides) : overrides[k].replacement_user_id = None

====
